---- MODULE Spec2Model ----
(***************************************************************************)
(* Model of application/parser/file/tabular_parser.py: the pandas-based    *)
(* CSV and Excel parsers, which turn a decoded table (column labels and    *)
(* rows of cells) into text, repeating a header line at a configurable     *)
(* period.                                                                 *)
(*                                                                         *)
(* A Python str is a sequence of one-character strings.  A value that a    *)
(* decoder delivers (a column label or a cell) is a record: t = "str"      *)
(* with its text in s, or t = "int" with its number in n.                  *)
(***************************************************************************)
EXTENDS Integers, Sequences, FiniteSets, TLC

VARIABLES kwargs, csv_parser, excel_parser, df, csv_out, excel_out

vars == <<kwargs, csv_parser, excel_parser, df, csv_out, excel_out>>

(***************************************************************************)
(* Bounds of the model.                                                    *)
(***************************************************************************)
\* rows of a table whose cells are drawn freely
MaxRows == 2
\* rows of a one-column table of consecutive integers
MaxLongRows == 21
\* largest header_period passed explicitly to a constructor
MaxPeriod == 3

(***************************************************************************)
(* Python values and the str operations the parsers use.                   *)
(***************************************************************************)
PyStr(chars) == [t |-> "str", s |-> chars, n |-> 0]
PyInt(k) == [t |-> "int", s |-> <<>>, n |-> k]

DigitChars == <<"0", "1", "2", "3", "4", "5", "6", "7", "8", "9">>

RECURSIVE Decimal(_)
Decimal(k) ==
  IF k < 10 THEN <<DigitChars[k + 1]>>
  ELSE Decimal(k \div 10) \o <<DigitChars[(k % 10) + 1]>>

\* row.astype(str): the text of one cell
astype_str(v) == IF v.t = "str" THEN v.s ELSE Decimal(v.n)

\* sep.join(items) over items that are all str
RECURSIVE join(_, _)
join(sep, items) ==
  IF Len(items) = 0 THEN <<>>
  ELSE IF Len(items) = 1 THEN items[1]
  ELSE items[1] \o sep \o join(sep, Tail(items))

\* str.join raises TypeError on an item that is not a str
join_raises(values) == \E k \in 1..Len(values) : values[k].t # "str"

(***************************************************************************)
(* Constructor defaults.                                                   *)
(***************************************************************************)
DefaultColJoiner == <<",", " ">>
DefaultRowJoiner == <<"\n">>
DefaultHeaderPeriod == 20
DefaultHeaderPrefix == <<"H", "E", "A", "D", "E", "R", "S", ":", " ">>

Arg(kw, name, default) == IF name \in DOMAIN kw THEN kw[name] ELSE default

\* PandasCSVParser.__init__
PandasCSVParser_init(kw) ==
  [concat_rows   |-> Arg(kw, "concat_rows", TRUE),
   col_joiner    |-> Arg(kw, "col_joiner", DefaultColJoiner),
   row_joiner    |-> Arg(kw, "row_joiner", DefaultRowJoiner),
   header_period |-> Arg(kw, "header_period", DefaultHeaderPeriod),
   header_prefix |-> Arg(kw, "header_prefix", DefaultHeaderPrefix)]

\* ExcelParser.__init__
ExcelParser_init(kw) ==
  [concat_rows   |-> Arg(kw, "concat_rows", TRUE),
   col_joiner    |-> Arg(kw, "col_joiner", DefaultColJoiner),
   row_joiner    |-> Arg(kw, "row_joiner", DefaultRowJoiner),
   header_period |-> Arg(kw, "header_period", DefaultHeaderPeriod),
   header_prefix |-> Arg(kw, "header_prefix", DefaultHeaderPrefix)]

(***************************************************************************)
(* What parse_file hands back.                                             *)
(***************************************************************************)
NotCalled == [state |-> "none", list |-> <<>>, text |-> <<>>]
Raised == [state |-> "TypeError", list |-> <<>>, text |-> <<>>]
ReturnList(l) == [state |-> "list", list |-> l, text |-> <<>>]
ReturnStr(s) == [state |-> "str", list |-> <<>>, text |-> s]

\* the texts of the cells of one row
row_texts(row) == [k \in 1..Len(row) |-> astype_str(row[k])]

(***************************************************************************)
(* PandasCSVParser.parse_file, applied to the table the decoder delivered.  *)
(***************************************************************************)
\* header_row, once headers are known to be all str
csv_header_row(self, headers) ==
  self.header_prefix \o join(self.col_joiner, [k \in 1..Len(headers) |-> headers[k].s])

\* csv_rows_as_list with the header line put in front: C1 tells them apart
csv_rows_as_list_with_header(self, data) ==
  <<csv_header_row(self, data.columns)>> \o
    [r \in 1..Len(data.rows) |-> join(self.col_joiner, row_texts(data.rows[r]))]

\* not concat_rows: one text per row
csv_rows_as_list(self, data) ==
  [r \in 1..Len(data.rows) |-> join(self.col_joiner, row_texts(data.rows[r]))]

\* csv_first_lines with "> 1" for "!= 1": C7 tells them apart
csv_first_lines_above_one(self, header_row) ==
  IF self.header_period > 1 THEN <<header_row>> ELSE <<>>

\* text_list before the loop
csv_first_lines(self, header_row) ==
  IF self.header_period # 1 THEN <<header_row>> ELSE <<>>

\* csv_iteration without "i > 0": C2 tells them apart
csv_iteration_from_zero(self, text_list, i, row, n, header_row) ==
  LET before == IF self.header_period > 1 /\ i % self.header_period = 0
                THEN Append(text_list, header_row)
                ELSE text_list
      withrow == Append(before, join(self.col_joiner, row_texts(row)))
  IN  IF self.header_period = 1 /\ i < n - 1
      THEN Append(withrow, header_row)
      ELSE withrow

\* csv_iteration with "i < len(df)" for "i < len(df) - 1": C3 tells them apart
csv_iteration_after_last(self, text_list, i, row, n, header_row) ==
  LET before == IF self.header_period > 1 /\ i > 0 /\ i % self.header_period = 0
                THEN Append(text_list, header_row)
                ELSE text_list
      withrow == Append(before, join(self.col_joiner, row_texts(row)))
  IN  IF self.header_period = 1 /\ i < n
      THEN Append(withrow, header_row)
      ELSE withrow

\* csv_iteration with "<= 1" for "== 1": C4 tells them apart
csv_iteration_upto_one(self, text_list, i, row, n, header_row) ==
  LET before == IF self.header_period > 1 /\ i > 0 /\ i % self.header_period = 0
                THEN Append(text_list, header_row)
                ELSE text_list
      withrow == Append(before, join(self.col_joiner, row_texts(row)))
  IN  IF self.header_period <= 1 /\ i < n - 1
      THEN Append(withrow, header_row)
      ELSE withrow

\* one pass of the loop body, for the row labelled i of n rows
csv_iteration(self, text_list, i, row, n, header_row) ==
  LET before == IF self.header_period > 1 /\ i > 0 /\ i % self.header_period = 0
                THEN Append(text_list, header_row)
                ELSE text_list
      withrow == Append(before, join(self.col_joiner, row_texts(row)))
  IN  IF self.header_period = 1 /\ i < n - 1
      THEN Append(withrow, header_row)
      ELSE withrow

\* for i, row in df.iterrows(), from label i on; the labels are those of the
\* RangeIndex that read_csv builds, 0 .. len(df) - 1
RECURSIVE csv_iterrows(_, _, _, _, _)
csv_iterrows(self, data, i, text_list, header_row) ==
  IF i >= Len(data.rows) THEN text_list
  ELSE csv_iterrows(self, data, i + 1,
         csv_iteration(self, text_list, i, data.rows[i + 1], Len(data.rows), header_row),
         header_row)

\* csv_joined with col_joiner for row_joiner: C6 tells them apart
csv_joined_by_col_joiner(self, text_list) == join(self.col_joiner, text_list)

\* the returned text
csv_joined(self, text_list) == join(self.row_joiner, text_list)

csv_parse(self, data) ==
  IF join_raises(data.columns) THEN Raised
  ELSE LET header_row == csv_header_row(self, data.columns)
       IN  IF ~self.concat_rows THEN ReturnList(csv_rows_as_list(self, data))
           ELSE ReturnStr(csv_joined(self,
                  csv_iterrows(self, data, 0, csv_first_lines(self, header_row), header_row)))

(***************************************************************************)
(* ExcelParser.parse_file, applied to the table the decoder delivered.  *)
(***************************************************************************)
\* header_row, once headers are known to be all str
excel_header_row(self, headers) ==
  self.header_prefix \o join(self.col_joiner, [k \in 1..Len(headers) |-> headers[k].s])

\* not concat_rows: one text per row
excel_rows_as_list(self, data) ==
  [r \in 1..Len(data.rows) |-> join(self.col_joiner, row_texts(data.rows[r]))]

\* excel_first_lines without the test of header_period: C10 tells them apart
excel_first_lines_always(self, header_row) == <<header_row>>

\* text_list before the loop
excel_first_lines(self, header_row) ==
  IF self.header_period # 1 THEN <<header_row>> ELSE <<>>

\* one pass of the loop body, for the row labelled i of n rows
excel_iteration(self, text_list, i, row, n, header_row) ==
  LET before == IF self.header_period > 1 /\ i > 0 /\ i % self.header_period = 0
                THEN Append(text_list, header_row)
                ELSE text_list
      withrow == Append(before, join(self.col_joiner, row_texts(row)))
  IN  IF self.header_period = 1 /\ i < n - 1
      THEN Append(withrow, header_row)
      ELSE withrow

\* for i, row in df.iterrows(), from label i on; the labels are those of the
\* RangeIndex that read_excel builds, 0 .. len(df) - 1
RECURSIVE excel_iterrows(_, _, _, _, _)
excel_iterrows(self, data, i, text_list, header_row) ==
  IF i >= Len(data.rows) THEN text_list
  ELSE excel_iterrows(self, data, i + 1,
         excel_iteration(self, text_list, i, data.rows[i + 1], Len(data.rows), header_row),
         header_row)

\* the returned text
excel_joined(self, text_list) == join(self.row_joiner, text_list)

excel_parse(self, data) ==
  IF join_raises(data.columns) THEN Raised
  ELSE LET header_row == excel_header_row(self, data.columns)
       IN  IF ~self.concat_rows THEN ReturnList(excel_rows_as_list(self, data))
           ELSE ReturnStr(excel_joined(self,
                  excel_iterrows(self, data, 0, excel_first_lines(self, header_row), header_row)))

(***************************************************************************)
(* The inputs: constructor keyword arguments and decoded tables.           *)
(***************************************************************************)
Absent == [x \in {} |-> 0]
Opt(name, values) == {Absent} \cup {[x \in {name} |-> v] : v \in values}

KwargsSet ==
  { a @@ b @@ c @@ d @@ e :
      a \in Opt("concat_rows", {FALSE}),
      b \in Opt("col_joiner", {<<";">>}),
      c \in Opt("row_joiner", {<<"a">>, <<"1", "2">>, <<>>}),
      d \in Opt("header_period", 0..MaxPeriod),
      e \in Opt("header_prefix", {<<"a">>, <<>>}) }

ColumnLabels == { <<PyStr(<<"a">>)>>,
                  <<PyStr(<<"a">>), PyStr(<<"b">>)>>,
                  <<PyStr(<<"a">>), PyInt(12)>> }
CellValues == { PyStr(<<"a">>), PyInt(12) }

RowsOf(width) == UNION { [1..n -> [1..width -> CellValues]] : n \in 0..MaxRows }

SmallTables == UNION { { [columns |-> h, rows |-> r] : r \in RowsOf(Len(h)) } : h \in ColumnLabels }

\* one str column over the integers 0, 1, 2, ...
LongTables ==
  { [columns |-> <<PyStr(<<"a">>)>>, rows |-> [r \in 1..n |-> <<PyInt(r - 1)>>]] : n \in 0..MaxLongRows }

\* columns a, b over the rows 1 2 / 3 4 / 5 6
ExampleTable ==
  [columns |-> <<PyStr(<<"a">>), PyStr(<<"b">>)>>,
   rows |-> << <<PyInt(1), PyInt(2)>>, <<PyInt(3), PyInt(4)>>, <<PyInt(5), PyInt(6)>> >>]

Tables == SmallTables \cup LongTables \cup {ExampleTable}

(***************************************************************************)
(* The state machine: both parsers are constructed with the same keyword   *)
(* arguments and applied to the same decoded table.                        *)
(***************************************************************************)
Init ==
  /\ kwargs \in KwargsSet
  /\ csv_parser = PandasCSVParser_init(kwargs)
  /\ excel_parser = ExcelParser_init(kwargs)
  /\ df \in Tables
  /\ csv_out = NotCalled
  /\ excel_out = NotCalled

PandasCSVParser_parse_file ==
  /\ csv_out' = csv_parse(csv_parser, df)
  /\ UNCHANGED <<kwargs, csv_parser, excel_parser, df, excel_out>>

ExcelParser_parse_file ==
  /\ excel_out' = excel_parse(excel_parser, df)
  /\ UNCHANGED <<kwargs, csv_parser, excel_parser, df, csv_out>>

Next == PandasCSVParser_parse_file \/ ExcelParser_parse_file

Spec == Init /\ [][Next]_vars

TypeOK ==
  /\ kwargs \in KwargsSet
  /\ df \in Tables
  /\ csv_out.state \in {"none", "TypeError", "list", "str"}
  /\ excel_out.state \in {"none", "TypeError", "list", "str"}

(***************************************************************************)
(* Vocabulary of the properties.                                           *)
(***************************************************************************)
\* the two parse_file calls, each with the parser that made it
Calls == { [self |-> csv_parser, out |-> csv_out],
           [self |-> excel_parser, out |-> excel_out] }

\* every column label is a str, as the Header of the data model is
HeaderIsStr == \A k \in 1..Len(df.columns) : df.columns[k].t = "str"

NumRows == Len(df.rows)

\* the cells of each row, as text, joined by a column joiner
JoinedRows(col_joiner) ==
  [r \in 1..NumRows |-> join(col_joiner, [k \in 1..Len(df.rows[r]) |-> astype_str(df.rows[r][k])])]

\* headerPrefix + join(header, colJoiner)
HeaderLine(self) ==
  self.header_prefix \o join(self.col_joiner, [k \in 1..Len(df.columns) |-> df.columns[k].s])

\* the row texts in order, with a header line immediately before the row of
\* zero-based index i exactly when marks[i]
RECURSIVE LinesWithHeaders(_, _, _, _)
LinesWithHeaders(texts, header, marks, i) ==
  IF i >= Len(texts) THEN <<>>
  ELSE (IF marks[i] THEN <<header>> ELSE <<>>) \o <<texts[i + 1]>>
         \o LinesWithHeaders(texts, header, marks, i + 1)

ConcatCall(c) == HeaderIsStr /\ c.self.concat_rows /\ c.out.state # "none"

\* the characters of a text
Chars(text) == { text[k] : k \in 1..Len(text) }

\* s.startswith(prefix)
startswith(s, prefix) ==
  /\ Len(prefix) <= Len(s)
  /\ SubSeq(s, 1, Len(prefix)) = prefix

\* the positions of s at which sep occurs
occurrences(s, sep) ==
  { k \in 1..(Len(s) - Len(sep) + 1) : SubSeq(s, k, k + Len(sep) - 1) = sep }

\* s.split(sep) for a non-empty sep: cut at the leftmost occurrence, then
\* go on after it
RECURSIVE split(_, _)
split(s, sep) ==
  LET found == occurrences(s, sep)
  IN  IF found = {} THEN <<s>>
      ELSE LET k == CHOOSE j \in found : \A m \in found : j <= m
           IN  <<SubSeq(s, 1, k - 1)>> \o split(SubSeq(s, k + Len(sep), Len(s)), sep)

\* split the output on rowJoiner and drop the lines that start with headerPrefix
DataLines(c) ==
  LET NotHeader(line) == ~startswith(line, c.self.header_prefix)
  IN  SelectSeq(split(c.out.text, c.self.row_joiner), NotHeader)

(***************************************************************************)
(* Properties.                                                             *)
(***************************************************************************)
\* C1: with concat_rows false, parse_file returns a list with one element per
\* row, the k-th being the k-th row's cells joined by col_joiner; no header
\* line is in it and header_period has no influence on it.
C1_SplitModeRows ==
  \A c \in Calls :
    (HeaderIsStr /\ ~c.self.concat_rows /\ c.out.state # "none") =>
      /\ c.out.state = "list"
      /\ Len(c.out.list) = NumRows
      /\ \A k \in 1..NumRows : c.out.list[k] = JoinedRows(c.self.col_joiner)[k]

C1_Witness ==
  /\ csv_out.state = "list" /\ excel_out.state = "list"
  /\ NumRows = 2 /\ Len(df.columns) = 2
  /\ csv_parser.header_period = 2

\* C2: in concatenated mode with header_period N > 1 and at least one row, the
\* output is the row texts in order with a header line immediately before
\* row i exactly when i is a multiple of N (a single one before row 0).
C2_PeriodicHeaders ==
  \A c \in Calls :
    (ConcatCall(c) /\ c.self.header_period > 1 /\ NumRows >= 1) =>
      /\ c.out.state = "str"
      /\ c.out.text = join(c.self.row_joiner,
           LinesWithHeaders(JoinedRows(c.self.col_joiner), HeaderLine(c.self),
             [i \in 0..(NumRows - 1) |-> i % c.self.header_period = 0], 0))

C2_Witness ==
  /\ csv_out.state = "str"
  /\ csv_parser.header_period = 3
  /\ NumRows >= 7

C4_SingleLeadingHeader ==
  \A c \in Calls :
    (ConcatCall(c) /\ c.self.header_period = 0) =>
      /\ c.out.state = "str"
      /\ c.out.text = join(c.self.row_joiner,
           <<HeaderLine(c.self)>> \o JoinedRows(c.self.col_joiner))

C4_Witness ==
  /\ csv_out.state = "str"
  /\ csv_parser.header_period = 0
  /\ NumRows >= 3

\* C5: in concatenated mode with header_period 1 every row, the first
\* included, is immediately preceded by a header line.
C5_HeaderBeforeEveryRow ==
  \A c \in Calls :
    (ConcatCall(c) /\ c.self.header_period = 1) =>
      /\ c.out.state = "str"
      /\ c.out.text = join(c.self.row_joiner,
           LinesWithHeaders(JoinedRows(c.self.col_joiner), HeaderLine(c.self),
             [i \in 0..(NumRows - 1) |-> TRUE], 0))

\* C6, as stated: in concatenated mode, splitting the output on row_joiner
\* and dropping the lines that start with header_prefix gives back the row
\* texts in order, whatever the texts and the configuration (row_joiner not
\* empty, for str.split to accept it).
C6_RoundTripAlways ==
  \A c \in Calls :
    (ConcatCall(c) /\ c.out.state = "str" /\ c.self.row_joiner # <<>>) =>
      DataLines(c) = JoinedRows(c.self.col_joiner)

\* the texts among which row_joiner must not be found
RoundTripSafe(c) ==
  /\ c.self.row_joiner # <<>>
  /\ c.self.row_joiner[1] \notin Chars(HeaderLine(c.self))
  /\ \A r \in 1..NumRows :
       /\ c.self.row_joiner[1] \notin Chars(JoinedRows(c.self.col_joiner)[r])
       /\ ~startswith(JoinedRows(c.self.col_joiner)[r], c.self.header_prefix)
  /\ (NumRows >= 1 \/ c.self.header_period # 1)

\* C6, amended: the round trip gives back the row texts in order when
\* row_joiner is not empty and its first character occurs neither in the
\* header line nor in a row text, no row text starts with header_prefix, and
\* there is a row or header_period is not 1.
C6_RoundTripWhenSafe ==
  \A c \in Calls :
    (ConcatCall(c) /\ c.out.state = "str" /\ RoundTripSafe(c)) =>
      DataLines(c) = JoinedRows(c.self.col_joiner)

C6_Witness ==
  /\ csv_out.state = "str"
  /\ HeaderIsStr /\ RoundTripSafe([self |-> csv_parser, out |-> csv_out])
  /\ csv_parser.header_period = 2
  /\ NumRows >= 5

\* C7: with no rows, concatenated mode with header_period other than 1
\* returns the header line alone, and split mode returns the empty list.
C7_NoRows ==
  \A c \in Calls :
    (HeaderIsStr /\ NumRows = 0 /\ c.out.state # "none") =>
      /\ (c.self.concat_rows /\ c.self.header_period # 1) =>
           c.out = ReturnStr(HeaderLine(c.self))
      /\ ~c.self.concat_rows => c.out = ReturnList(<<>>)

C7_Witness ==
  /\ NumRows = 0
  /\ csv_out.state = "str" /\ csv_parser.header_period = 0
  /\ csv_out.text # <<>>

\* C8: parse_file raises nothing of its own: for every table the decoder
\* delivered, labels and cells that are not str included, it returns a list
\* in split mode and a text in concatenated mode, made of the string forms
\* of the values.
C8_NoFailure ==
  \A c \in Calls :
    c.out.state # "none" =>
      /\ c.out.state = (IF c.self.concat_rows THEN "str" ELSE "list")
      /\ ~c.self.concat_rows => c.out.list = JoinedRows(c.self.col_joiner)
      /\ (c.self.concat_rows /\ c.self.header_period = 0) =>
           c.out.text = join(c.self.row_joiner,
             <<c.self.header_prefix \o join(c.self.col_joiner,
                 [k \in 1..Len(df.columns) |-> astype_str(df.columns[k])])>>
               \o JoinedRows(c.self.col_joiner))

\* C9: an ExcelParser constructed without header_period puts the header line
\* at the beginning of the concatenated output and nowhere else.
C9_ExcelDefaultPeriod ==
  ("header_period" \notin DOMAIN kwargs /\ HeaderIsStr /\ excel_out.state = "str") =>
    excel_out.text = join(excel_parser.row_joiner,
      <<HeaderLine(excel_parser)>> \o JoinedRows(excel_parser.col_joiner))

\* C10: on the same table and the same configuration the CSV parser and the
\* Excel parser hand back the same result.
C10_SameFormatting ==
  (csv_out.state # "none" /\ excel_out.state # "none") => csv_out = excel_out

C10_Witness ==
  /\ csv_out.state = "str" /\ excel_out.state = "str"
  /\ csv_parser.header_period = 2
  /\ NumRows >= 5
====
